---- MODULE Spec2Model ----
(***************************************************************************)
(* Model of services/worker/app/resume/pdf_gen.py: the resume text / HTML  *)
(* block parsers, the line heuristics they rest on, and the flowable       *)
(* builders of text_to_pdf_bytes and html_to_pdf_bytes.                    *)
(*                                                                         *)
(* A Python str is a sequence of characters; a character is a one-element  *)
(* TLA+ string ("A", "-", "\n") or, for a non-ASCII code point, its name   *)
(* ("U+2013").  Offsets into strings are Python's (0-based).               *)
(***************************************************************************)
EXTENDS Naturals, Integers, Sequences, FiniteSets, TLC

VARIABLES mode, input, pc, res, blocks, flowables, i, doc,
          s, ranges, start, j, depth, ordered

vars == <<mode, input, pc, res, blocks, flowables, i, doc,
          s, ranges, start, j, depth, ordered>>

(***************************************************************************)
(* Bounds of the model.                                                    *)
(***************************************************************************)
MaxLineLen == 4
PadLen == 46
MaxAmpFrags == 4
MaxLines == 4
MaxBlank == 2
MaxHtmlFrags == 5

(***************************************************************************)
(* Characters and the str methods the code uses.                           *)
(***************************************************************************)
NBSP == "U+00A0"

UpperLetters == <<"A","B","C","D","E","F","G","H","I","J","K","L","M",
                  "N","O","P","Q","R","S","T","U","V","W","X","Y","Z">>
LowerLetters == <<"a","b","c","d","e","f","g","h","i","j","k","l","m",
                  "n","o","p","q","r","s","t","u","v","w","x","y","z">>
Digits == {"0","1","2","3","4","5","6","7","8","9"}

UpperSet == {UpperLetters[k] : k \in 1..26}
LowerSet == {LowerLetters[k] : k \in 1..26}
LowerTable == [c \in UpperSet |-> LowerLetters[CHOOSE k \in 1..26 : UpperLetters[k] = c]]
UpperTable == [c \in LowerSet |-> UpperLetters[CHOOSE k \in 1..26 : LowerLetters[k] = c]]

IsUpperCh(c) == c \in UpperSet
IsLowerCh(c) == c \in LowerSet
LowerCh(c) == IF c \in UpperSet THEN LowerTable[c] ELSE c
UpperCh(c) == IF c \in LowerSet THEN UpperTable[c] ELSE c

\* str.isspace() of one character (the whitespace str.strip() and \s remove)
IsSpace(c) == c \in {" ", "\n", "\t", "\r", NBSP}

SetMin(S) == CHOOSE x \in S : \A y \in S : x <= y
SetMax(S) == CHOOSE x \in S : \A y \in S : x >= y

\* s[a:b] for 0 <= a, b
Slice(str, a, b) == SubSeq(str, a + 1, IF b > Len(str) THEN Len(str) ELSE b)
\* s[a:]
From(str, a) == SubSeq(str, a + 1, Len(str))

\* str.lower(), str.upper()
Lower(str) == [k \in 1..Len(str) |-> LowerCh(str[k])]
Upper(str) == [k \in 1..Len(str) |-> UpperCh(str[k])]

\* str.isupper(): some cased character, and no lower-case one
IsUpper(str) == /\ \E k \in 1..Len(str) : IsUpperCh(str[k])
                /\ \A k \in 1..Len(str) : ~IsLowerCh(str[k])

\* str.strip(), str.lstrip(), str.rstrip()
Strip(str) ==
    LET keep == {k \in 1..Len(str) : ~IsSpace(str[k])}
    IN  IF keep = {} THEN <<>> ELSE SubSeq(str, SetMin(keep), SetMax(keep))
LStrip(str) ==
    LET keep == {k \in 1..Len(str) : ~IsSpace(str[k])}
    IN  IF keep = {} THEN <<>> ELSE SubSeq(str, SetMin(keep), Len(str))
RStrip(str) ==
    LET keep == {k \in 1..Len(str) : ~IsSpace(str[k])}
    IN  IF keep = {} THEN <<>> ELSE SubSeq(str, 1, SetMax(keep))

\* str.replace(c, d) for single characters c drawn from a set
ReplaceChars(str, from, to) ==
    [k \in 1..Len(str) |-> IF str[k] \in from THEN to ELSE str[k]]

\* pat occurs in str at offset a (0-based)
MatchAt(str, pat, a) ==
    /\ a + Len(pat) <= Len(str)
    /\ \A k \in 1..Len(pat) : str[a + k] = pat[k]
\* the same, ignoring case (re.IGNORECASE)
MatchAtCI(str, pat, a) ==
    /\ a + Len(pat) <= Len(str)
    /\ \A k \in 1..Len(pat) : LowerCh(str[a + k]) = LowerCh(pat[k])

\* str.find(pat, a): the first offset >= a where pat occurs, or -1
Find(str, pat, a) ==
    LET hits == {q \in a..Len(str) : MatchAt(str, pat, q)}
    IN  IF hits = {} THEN -1 ELSE SetMin(hits)
FindCI(str, pat, a) ==
    LET hits == {q \in a..Len(str) : MatchAtCI(str, pat, q)}
    IN  IF hits = {} THEN -1 ELSE SetMin(hits)

\* pat in str
Contains(str, pat) == Find(str, pat, 0) # -1

\* str.split(sep) for a non-empty sep
RECURSIVE Split(_, _)
Split(str, sep) ==
    LET q == Find(str, sep, 0)
    IN  IF q = -1 THEN <<str>>
        ELSE <<Slice(str, 0, q)>> \o Split(From(str, q + Len(sep)), sep)

\* sep.join(parts)
RECURSIVE Join(_, _)
Join(parts, sep) ==
    IF parts = <<>> THEN <<>>
    ELSE IF Len(parts) = 1 THEN parts[1]
    ELSE parts[1] \o sep \o Join(Tail(parts), sep)

\* [f for f in seq if keep(f)]
RECURSIVE SelectNonBlank(_)
SelectNonBlank(parts) ==
    IF parts = <<>> THEN <<>>
    ELSE IF Strip(parts[1]) = <<>> THEN SelectNonBlank(Tail(parts))
    ELSE <<Strip(parts[1])>> \o SelectNonBlank(Tail(parts))

(***************************************************************************)
(* pdf_gen.py, lines 31-85: bullet and header heuristics.                  *)
(***************************************************************************)
BULLET_PREFIXES == {"-", "U+2022", "U+2013", "U+2014", "*"}
LIST_MARKER == <<"-", " ", " ", " ">>
UNICODE_DASHES == {"-", "U+2010", "U+2011", "U+2012", "U+2013", "U+2014",
                   "U+2015", "U+2212", "U+FEFF"}
UNICODE_BULLETS == {"U+2022", "U+2023", "U+2219", "U+2043", "U+00B7"}

normalize_bullet_line(line) ==
    LET s0 == ReplaceChars(Strip(line), {NBSP}, " ")
        s1 == ReplaceChars(s0, UNICODE_DASHES, "-")
        s2 == ReplaceChars(s1, UNICODE_BULLETS, "-")
    IN  Strip(s2)

is_bullet_line(line) ==
    LET n == normalize_bullet_line(line)
    IN  Len(n) > 0 /\ n[1] \in BULLET_PREFIXES

\* a plausible slip: the slice keeps the whitespace after the marker
strip_bullet_prefix_nolstrip(line) ==
    LET n == normalize_bullet_line(line)
    IN  IF n = <<>> \/ n[1] \notin BULLET_PREFIXES THEN n ELSE Tail(n)

strip_bullet_prefix(line) ==
    LET n == normalize_bullet_line(line)
    IN  IF n = <<>> \/ n[1] \notin BULLET_PREFIXES THEN n
        ELSE LStrip(Tail(n))

\* re.match(r"^\*\*.+\*\*$", line): '.' matches no newline, '$' also matches
\* before one trailing newline
BoldWrapped(line) ==
    LET body == IF Len(line) > 0 /\ line[Len(line)] = "\n"
                THEN {line, SubSeq(line, 1, Len(line) - 1)} ELSE {line}
    IN  \E b \in body :
           /\ Len(b) >= 5
           /\ MatchAt(b, <<"*", "*">>, 0)
           /\ MatchAt(b, <<"*", "*">>, Len(b) - 2)
           /\ \A k \in 3..(Len(b) - 2) : b[k] # "\n"

\* a plausible slip: an off-by-one in the lower length bound
is_section_header_le(line0) ==
    LET line == Strip(line0)
    IN  IF line = <<>> THEN FALSE
        ELSE IF BoldWrapped(line) THEN TRUE
        ELSE Len(line) < 50 /\ IsUpper(line) /\ Len(line) > 3

is_section_header(line0) ==
    LET line == Strip(line0)
    IN  IF line = <<>> THEN FALSE
        ELSE IF BoldWrapped(line) THEN TRUE
        ELSE Len(line) < 50 /\ IsUpper(line) /\ Len(line) > 2

looks_like_job_or_project_title(line) ==
    LET t == Strip(line)
    IN  IF t = <<>> \/ is_bullet_line(line) THEN FALSE
        ELSE IF Contains(t, <<"*", "*">>) THEN TRUE
        ELSE Contains(t, <<" ", "|", " ">>) /\ Len(t) > 20

(***************************************************************************)
(* Inputs of the line heuristics: every line of at most MaxLineLen         *)
(* characters over LineAlphabet, alone or followed by PadLen letters.      *)
(***************************************************************************)
LineAlphabet == {" ", "-", "*", "U+2013", "U+00B7", "A", "b"}
Pad == [k \in 1..PadLen |-> "A"]
LineCores == UNION {[1..n -> LineAlphabet] : n \in 0..MaxLineLen}
LineInputs == LineCores \cup {c \o Pad : c \in LineCores}

NoRes == [none |-> TRUE]

InitLine ==
    /\ mode = "line"
    /\ input \in LineInputs
    /\ pc = "start"
    /\ res = NoRes
    /\ blocks = <<>> /\ flowables = <<>> /\ i = 0 /\ doc = "none"
    /\ s = <<>> /\ ranges = <<>> /\ start = 0 /\ j = 0 /\ depth = 0
    /\ ordered = <<>>

\* one call of each heuristic on the line
CallHeuristics ==
    /\ mode = "line" /\ pc = "start"
    /\ res' = [normalized |-> normalize_bullet_line(input),
               is_bullet  |-> is_bullet_line(input),
               stripped   |-> strip_bullet_prefix(input),
               is_header  |-> is_section_header(input),
               is_job     |-> looks_like_job_or_project_title(input)]
    /\ pc' = "called"
    /\ UNCHANGED <<mode, input, blocks, flowables, i, doc,
                   s, ranges, start, j, depth, ordered>>

\* the second application: strip the stripped text again (as the renderer
\* does to a parsed bullet), classify the lower-cased line
CallAgain ==
    /\ mode = "line" /\ pc = "called"
    /\ res' = [normalized |-> res.normalized,
               is_bullet  |-> res.is_bullet,
               stripped   |-> res.stripped,
               is_header  |-> res.is_header,
               is_job     |-> res.is_job,
               stripped2  |-> strip_bullet_prefix(res.stripped),
               is_header_lower |-> is_section_header(Lower(input))]
    /\ pc' = "again"
    /\ UNCHANGED <<mode, input, blocks, flowables, i, doc,
                   s, ranges, start, j, depth, ordered>>

NextLine == CallHeuristics \/ CallAgain

SpecLine == InitLine /\ [][NextLine]_vars

(***************************************************************************)
(* Claims about the line heuristics (checked under SpecLine).              *)
(***************************************************************************)
\* the markers section 4.1 lists: dash variants, bullet glyphs, asterisk
ListedMarkers == UNICODE_DASHES \cup UNICODE_BULLETS \cup {"*"}
AllSpace(str) == \A k \in 1..Len(str) : IsSpace(str[k])
\* the claims' "wrapped in ** ... **"
WrappedInStars(str) ==
    /\ Len(str) >= 5
    /\ SubSeq(str, 1, 2) = <<"*", "*">>
    /\ SubSeq(str, Len(str) - 1, Len(str)) = <<"*", "*">>

\* C7 (as claimed): stripping the bullet prefix twice gives what stripping it
\* once gives, and a trimmed line that is not a bullet line comes back
\* unchanged.
C7_StripIdempotent ==
    (mode = "line" /\ pc = "again") =>
        /\ res.stripped2 = res.stripped
        /\ (input = Strip(input) /\ ~res.is_bullet) => res.stripped = input

\* C8 (as claimed): every upper-case string of more than 2 and fewer than 50
\* characters is a section header, and its lower-cased form is not, unless
\* it is wrapped in ** ... **.
C8_UpperIsHeader ==
    (mode = "line" /\ pc = "again") =>
        ((IsUpper(input) /\ Len(input) > 2 /\ Len(input) < 50) =>
            /\ res.is_header
            /\ res.is_header_lower => WrappedInStars(Strip(Lower(input))))

\* C8 (amended): every string whose trimmed form is upper-case with more
\* than 2 and fewer than 50 characters is a section header, and its
\* lower-cased form is not, unless its trimmed form is wrapped in ** ... **.
C8_TrimmedUpperIsHeader ==
    (mode = "line" /\ pc = "again") =>
        LET t == Strip(input)
        IN  (IsUpper(t) /\ Len(t) > 2 /\ Len(t) < 50) =>
               /\ res.is_header
               /\ res.is_header_lower => WrappedInStars(Strip(Lower(input)))

\* C8 witness: an upper-case line near the 50-character limit was classified
\* a header, and its lower-cased form was not.
C8_Witness ==
    /\ mode = "line" /\ pc = "again"
    /\ IsUpper(Strip(input)) /\ Len(Strip(input)) >= 40
    /\ Len(Strip(input)) < 50
    /\ res.is_header /\ ~res.is_header_lower

\* C9: a line whose first non-whitespace character is a listed marker is a
\* bullet line, and stripping it gives the normalized line without that one
\* marker and the whitespace after it; the empty line, and a line whose
\* normalized first character is no marker, is not a bullet line.
C9_BulletDetectAndStrip ==
    (mode = "line" /\ pc = "called") =>
        LET t == Strip(input)
            n == res.normalized
        IN  /\ (t # <<>> /\ t[1] \in ListedMarkers) =>
                  /\ res.is_bullet
                  /\ n # <<>> /\ n[1] \in {"-", "*"}
                  /\ \E w \in 0..(Len(n) - 1) :
                        /\ AllSpace(SubSeq(n, 2, 1 + w))
                        /\ res.stripped = SubSeq(n, 2 + w, Len(n))
                  /\ res.stripped = <<>> \/ ~IsSpace(res.stripped[1])
            /\ (t = <<>>) => ~res.is_bullet
            /\ (n # <<>> /\ n[1] \notin ListedMarkers) => ~res.is_bullet

\* C9 witness: an en-dash with no space after it ("–Ab") was detected
\* and stripped.
C9_Witness ==
    /\ mode = "line" /\ pc = "called"
    /\ Len(input) >= 3 /\ input[1] = "U+2013" /\ input[2] = "A"
    /\ res.is_bullet
    /\ res.normalized = <<"-">> \o Tail(input)
    /\ res.stripped = Tail(input)

(***************************************************************************)
(* pdf_gen.py, lines 19-28: ampersand escaping and ** to <b>.              *)
(***************************************************************************)
HexDigits == Digits \cup {"a","b","c","d","e","f","A","B","C","D","E","F"}

\* a run of n >= 1 characters of cls at offset a, then ";"
RunThenSemi(str, cls, a) ==
    \E n \in 1..(Len(str) - a) :
        /\ \A k \in 1..n : str[a + k] \in cls
        /\ a + n < Len(str) /\ str[a + n + 1] = ";"

\* the lookahead (amp;|lt;|gt;|quot;|#\d+;|#x[0-9a-f]+;) at offset a,
\* under re.IGNORECASE
EntityAt(str, a) ==
    \/ MatchAtCI(str, <<"a","m","p",";">>, a)
    \/ MatchAtCI(str, <<"l","t",";">>, a)
    \/ MatchAtCI(str, <<"g","t",";">>, a)
    \/ MatchAtCI(str, <<"q","u","o","t",";">>, a)
    \/ (MatchAt(str, <<"#">>, a) /\ RunThenSemi(str, Digits, a + 1))
    \/ (MatchAtCI(str, <<"#","x">>, a) /\ RunThenSemi(str, HexDigits, a + 2))

AMP == <<"&","a","m","p",";">>

\* a plausible slip: blind replacement of every "&"
RECURSIVE EscapeBlindFrom(_, _)
EscapeBlindFrom(str, a) ==
    IF a >= Len(str) THEN <<>>
    ELSE (IF str[a + 1] = "&" THEN AMP ELSE <<str[a + 1]>>)
         \o EscapeBlindFrom(str, a + 1)
escape_amp_blind(str) == EscapeBlindFrom(str, 0)

\* re.sub(r"&(?!...)", "&amp;", s): every "&" of s not followed by an entity
RECURSIVE EscapeFrom(_, _)
EscapeFrom(str, a) ==
    IF a >= Len(str) THEN <<>>
    ELSE (IF str[a + 1] = "&" /\ ~EntityAt(str, a + 1)
          THEN AMP ELSE <<str[a + 1]>>)
         \o EscapeFrom(str, a + 1)
escape_amp_for_reportlab(str) == EscapeFrom(str, 0)

(***************************************************************************)
(* Inputs of the escaping: concatenations of at most MaxAmpFrags fragments.*)
(***************************************************************************)
RECURSIVE Flatten(_)
Flatten(parts) ==
    IF parts = <<>> THEN <<>> ELSE parts[1] \o Flatten(Tail(parts))

AmpFrags == {<<"&">>, <<"a","m","p">>, <<"L","T">>, <<";">>, <<"#">>,
             <<"#","x">>, <<"1">>}
AmpInputs == {Flatten(f) : f \in UNION {[1..n -> AmpFrags] : n \in 0..MaxAmpFrags}}

InitAmp ==
    /\ mode = "amp"
    /\ input \in AmpInputs
    /\ pc = "start"
    /\ res = NoRes
    /\ blocks = <<>> /\ flowables = <<>> /\ i = 0 /\ doc = "none"
    /\ s = <<>> /\ ranges = <<>> /\ start = 0 /\ j = 0 /\ depth = 0
    /\ ordered = <<>>

CallEscape ==
    /\ mode = "amp" /\ pc = "start"
    /\ res' = [escaped |-> escape_amp_for_reportlab(input)]
    /\ pc' = "called"
    /\ UNCHANGED <<mode, input, blocks, flowables, i, doc,
                   s, ranges, start, j, depth, ordered>>

\* escaping the escaped text
CallEscapeAgain ==
    /\ mode = "amp" /\ pc = "called"
    /\ res' = [escaped  |-> res.escaped,
               escaped2 |-> escape_amp_for_reportlab(res.escaped)]
    /\ pc' = "again"
    /\ UNCHANGED <<mode, input, blocks, flowables, i, doc,
                   s, ranges, start, j, depth, ordered>>

NextAmp == CallEscape \/ CallEscapeAgain

SpecAmp == InitAmp /\ [][NextAmp]_vars

\* C6: escaping is idempotent, and in the escaped text every "&" starts a
\* recognized entity (amp, lt, gt, quot or a numeric reference).
C6_EscapeIdempotent ==
    (mode = "amp" /\ pc = "again") =>
        /\ res.escaped2 = res.escaped
        /\ \A k \in 1..Len(res.escaped) :
              res.escaped[k] = "&" => EntityAt(res.escaped, k)

\* C6 witness: a text holding both an entity and a bare "&" was escaped:
\* the entity was kept, the bare "&" was not.
C6_Witness ==
    /\ mode = "amp" /\ pc = "again"
    /\ \E k \in 1..Len(input) : input[k] = "&" /\ EntityAt(input, k)
    /\ \E k \in 1..Len(input) : input[k] = "&" /\ ~EntityAt(input, k)
    /\ Len(res.escaped) > Len(input)
    /\ res.escaped2 = res.escaped


(***************************************************************************)
(* pdf_gen.py, lines 151-221: _parse_blocks.                               *)
(***************************************************************************)
Block(t, c) == [type |-> t, content |-> c]

\* [Block(t, c) for c in contents]
RECURSIVE BlocksOf(_, _)
BlocksOf(t, contents) ==
    IF contents = <<>> THEN <<>>
    ELSE <<Block(t, contents[1])>> \o BlocksOf(t, Tail(contents))

\* a plausible slip: the pending bullets are emitted before the pending title
FlushBulletsFirst(non_bullet, bullet_lines) ==
    [k \in 1..Len(bullet_lines) |-> [type |-> "bullet", content |-> bullet_lines[k]]]
    \o (IF non_bullet # <<>>
        THEN <<[type |-> "job_title", content |-> Join(non_bullet, <<" ">>)]>>
        ELSE <<>>)

\* a plausible slip: the pending title is emitted without the test of line
\* 198 that there is one
FlushUnguarded(non_bullet, bullet_lines) ==
    <<[type |-> "job_title", content |-> Join(non_bullet, <<" ">>)]>>
    \o [k \in 1..Len(bullet_lines) |-> [type |-> "bullet", content |-> bullet_lines[k]]]

\* lines 197-201 and 211-215: the pending title, then the pending bullets
Flush(non_bullet, bullet_lines) ==
    (IF non_bullet # <<>>
     THEN <<Block("job_title", Join(non_bullet, <<" ">>))>> ELSE <<>>)
    \o BlocksOf("bullet", bullet_lines)

\* lines 191-215: the scan of a bullet paragraph from line k (0-based)
RECURSIVE BulletScan(_, _, _, _)
BulletScan(lines, k, non_bullet, bullet_lines) ==
    IF k >= Len(lines) THEN Flush(non_bullet, bullet_lines)
    ELSE LET ln == lines[k + 1]
         IN  IF Strip(ln) = <<>>
             THEN BulletScan(lines, k + 1, non_bullet, bullet_lines)
             ELSE IF looks_like_job_or_project_title(ln)
             THEN Flush(non_bullet, bullet_lines)
                  \o BulletScan(lines, k + 1, <<Strip(ln)>>, <<>>)
             ELSE IF is_bullet_line(ln)
             THEN BulletScan(lines, k + 1, non_bullet,
                             Append(bullet_lines, strip_bullet_prefix(ln)))
             ELSE BulletScan(lines, k + 1, non_bullet,
                             Append(bullet_lines, Strip(ln)))

\* line 186: the index of the first bullet line, or -1 (None)
BulletStart(lines) ==
    LET hits == {k \in 0..(Len(lines) - 1) : is_bullet_line(lines[k + 1])}
    IN  IF hits = {} THEN -1 ELSE SetMin(hits)

\* lines 174-220: a paragraph that the first-block case did not take
ParagraphBlocks(lines) ==
    IF Len(lines) = 1 /\ is_section_header(lines[1])
    THEN <<Block("section", lines[1])>>
    ELSE IF Len(lines) >= 2 /\ is_section_header(lines[1])
    THEN <<Block("section", lines[1])>> \o BlocksOf("body", Tail(lines))
    ELSE IF BulletStart(lines) # -1
    THEN BulletScan(lines, BulletStart(lines),
                    SubSeq(lines, 1, BulletStart(lines)), <<>>)
    ELSE <<Block("body", Join(lines, <<" ">>))>>

\* lines 162-173: the first block; FALSE when it falls through
FirstTaken(lines) ==
    Len(lines) = 1 \/ (Len(lines) >= 2 /\ ~is_section_header(lines[1]))
FirstBlocks(lines) ==
    IF Len(lines) = 1
    THEN (IF is_section_header(lines[1])
          THEN <<Block("section", lines[1])>>
          ELSE <<Block("title", lines[1])>>)
    ELSE <<Block("title", lines[1]),
           Block("contact", Join(Tail(lines), <<" ", "|", " ">>))>>

\* lines 157-220: the loop over raw_blocks, with the flag first
RECURSIVE ParseFrom(_, _)
ParseFrom(raw_blocks, first) ==
    IF raw_blocks = <<>> THEN <<>>
    ELSE LET lines == SelectNonBlank(Split(raw_blocks[1], <<"\n">>))
         IN  IF lines = <<>> THEN ParseFrom(Tail(raw_blocks), first)
             ELSE IF first /\ FirstTaken(lines)
             THEN FirstBlocks(lines) \o ParseFrom(Tail(raw_blocks), FALSE)
             ELSE ParagraphBlocks(lines) \o ParseFrom(Tail(raw_blocks), FALSE)

parse_blocks(text) ==
    ParseFrom(SelectNonBlank(Split(text, <<"\n", "\n">>)), TRUE)

(***************************************************************************)
(* pdf_gen.py, lines 24-28 and 224-251: _bold_to_xml, _block_to_flowables. *)
(***************************************************************************)
\* re.sub(r"\*\*(.+?)\*\*", r"<b>\1</b>", text, flags=re.DOTALL)
RECURSIVE BoldFrom(_, _)
BoldFrom(str, a) ==
    IF a >= Len(str) THEN <<>>
    ELSE LET q == Find(str, <<"*", "*">>, a + 3)
         IN  IF MatchAt(str, <<"*", "*">>, a) /\ q # -1
             THEN <<"<","b",">">> \o Slice(str, a + 2, q) \o <<"<","/","b",">">>
                  \o BoldFrom(str, q + 2)
             ELSE <<str[a + 1]>> \o BoldFrom(str, a + 1)

bold_to_xml(text) == escape_amp_for_reportlab(BoldFrom(text, 0))

\* str.replace("**", "")
RECURSIVE RemoveStars(_)
RemoveStars(str) ==
    LET q == Find(str, <<"*", "*">>, 0)
    IN  IF q = -1 THEN str
        ELSE Slice(str, 0, q) \o RemoveStars(From(str, q + 2))

\* str.title(): a cased character is upper-cased after an uncased one (or at
\* the start) and lower-cased after a cased one
IsCased(c) == IsUpperCh(c) \/ IsLowerCh(c)
Title(str) ==
    [k \in 1..Len(str) |->
        IF k = 1 \/ ~IsCased(str[k - 1]) THEN UpperCh(str[k])
        ELSE LowerCh(str[k])]

Para(text, style) == [kind |-> "Paragraph", text |-> text, style |-> style]
Rule(color) == [kind |-> "HRFlowable", color |-> color]
Spacer4 == [kind |-> "Spacer", height |-> 4]

block_to_flowables(block_type, content0) ==
    LET content == bold_to_xml(content0)
    IN  IF block_type = "title" THEN <<Para(content, "title")>>
        ELSE IF block_type = "contact" THEN <<Para(content, "contact")>>
        ELSE IF block_type = "section"
        THEN LET head0 == Strip(RemoveStars(content))
                 head == IF IsUpper(head0) THEN Title(head0) ELSE head0
             IN  <<Para(<<"<","b",">">> \o head \o <<"<","/","b",">">>, "section"),
                   Rule("#333333"), Spacer4>>
        ELSE IF block_type = "bullet"
        THEN <<Para(LIST_MARKER \o strip_bullet_prefix(content), "bullet_text")>>
        ELSE IF block_type = "job_title"
        THEN <<Para(content, "job_title"), Spacer4>>
        ELSE IF block_type = "body"
        THEN <<Para(strip_bullet_prefix(content), "body")>>
        ELSE <<>>

(***************************************************************************)
(* pdf_gen.py, lines 254-294: text_to_pdf_bytes.                           *)
(***************************************************************************)
\* line 268: blocks = _parse_blocks(resume_text)
ParseText ==
    /\ mode = "text" /\ pc = "start"
    /\ blocks' = parse_blocks(input)
    /\ flowables' = <<>>
    /\ i' = 0
    /\ pc' = "render"
    /\ UNCHANGED <<mode, input, res, doc, s, ranges, start, j, depth, ordered>>

\* a plausible slip: the run of bullet blocks ends after its first block
RunEndAfterOne(bs, k) == k + 1

\* lines 276-282: the end of the run of bullet blocks that starts at k
RECURSIVE RunEnd(_, _)
RunEnd(bs, k) ==
    IF k < Len(bs) /\ bs[k + 1].type = "bullet" THEN RunEnd(bs, k + 1) ELSE k

\* lines 277-281: the paragraphs of blocks a .. b-1
RECURSIVE BulletParas(_, _, _)
BulletParas(bs, a, b) ==
    IF a >= b THEN <<>>
    ELSE <<Para(LIST_MARKER
                \o bold_to_xml(strip_bullet_prefix(bs[a + 1].content)),
                "bullet_text")>>
         \o BulletParas(bs, a + 1, b)

\* lines 272-290: one iteration of the outer while loop
RenderTextBlock ==
    /\ mode = "text" /\ pc = "render"
    /\ i < Len(blocks)
    /\ IF blocks[i + 1].type = "bullet"
       THEN LET r == RunEnd(blocks, i)
            IN  /\ flowables' = flowables \o <<Spacer4>>
                       \o BulletParas(blocks, i, r)
                       \o (IF r < Len(blocks) /\ blocks[r + 1].type = "job_title"
                           THEN <<Spacer4, Rule("#cccccc"), Spacer4>>
                           ELSE <<>>)
                /\ i' = r
       ELSE /\ flowables' = flowables
                   \o block_to_flowables(blocks[i + 1].type, blocks[i + 1].content)
            /\ i' = i + 1
    /\ UNCHANGED <<mode, input, pc, res, blocks, doc,
                   s, ranges, start, j, depth, ordered>>

\* lines 292-294: doc.build(flowables), and the buffer is returned
BuildText ==
    /\ mode = "text" /\ pc = "render"
    /\ i >= Len(blocks)
    /\ doc' = "pdf"
    /\ pc' = "done"
    /\ UNCHANGED <<mode, input, res, blocks, flowables, i,
                   s, ranges, start, j, depth, ordered>>

NextText == ParseText \/ RenderTextBlock \/ BuildText

(***************************************************************************)
(* Inputs of the text pipeline: at most MaxLines lines drawn from          *)
(* LineFrags, each ended by a line break or a blank line; the same after a *)
(* name-and-contact first paragraph; and whitespace-only texts.            *)
(***************************************************************************)
NameLine == <<"J","o"," ","D","o","e">>
ContactLine == <<"j","@","x",".","c","o"," ","|"," ","5","5","5">>
HeaderLine == <<"S","K","I","L","L","S">>
RoleLine == <<"D","e","v"," ","|"," ","A","c","m","e"," ","|"," ","2","0","2","0","-","2","0","2","3">>
BulletLine == <<"-"," ","D","i","d"," ","x">>

LineFrags == {NameLine, HeaderLine, RoleLine, BulletLine}
Breaks == {<<"\n">>, <<"\n", "\n">>}
CapsBulletLine == <<"-"," ","A","W","S">>
DoubleBulletLine == <<"U+2013"," ","-"," ","y">>
BulletFrags == {NameLine, BulletLine, CapsBulletLine, DoubleBulletLine}

TextItems(frags) == {f \o b : f \in frags, b \in Breaks}
TextsOver(frags, n) ==
    {Flatten(t) : t \in UNION {[1..m -> TextItems(frags)] : m \in 0..n}}
TextsUpTo(n) == TextsOver(LineFrags, n)
BlankTexts == UNION {[1..m -> {" ", "\n"}] : m \in 0..MaxBlank}
TextInputs ==
    TextsUpTo(MaxLines)
    \cup {NameLine \o <<"\n">> \o ContactLine \o <<"\n", "\n">> \o t :
             t \in TextsUpTo(MaxLines - 1)}
    \cup BlankTexts

InitText ==
    /\ mode = "text"
    /\ input \in TextInputs
    /\ pc = "start"
    /\ res = NoRes
    /\ blocks = <<>> /\ flowables = <<>> /\ i = 0 /\ doc = "none"
    /\ s = <<>> /\ ranges = <<>> /\ start = 0 /\ j = 0 /\ depth = 0
    /\ ordered = <<>>

SpecText == InitText /\ [][NextText]_vars

\* the text pipeline on texts made of bullet lines of several forms
InitBullets ==
    /\ mode = "text"
    /\ input \in TextsOver(BulletFrags, MaxLines)
    /\ pc = "start"
    /\ res = NoRes
    /\ blocks = <<>> /\ flowables = <<>> /\ i = 0 /\ doc = "none"
    /\ s = <<>> /\ ranges = <<>> /\ start = 0 /\ j = 0 /\ depth = 0
    /\ ordered = <<>>

SpecBullets == InitBullets /\ [][NextText]_vars


(***************************************************************************)
(* Claims about the text block parser.                                     *)
(***************************************************************************)
\* the text of section 8: a name line and a contact line, a blank line, then
\* a header line, a role line and k bullet lines, the last line ended by b
RECURSIVE Repeat(_, _)
Repeat(x, k) == IF k = 0 THEN <<>> ELSE x \o Repeat(x, k - 1)
ResumeText(k, b) ==
    NameLine \o <<"\n">> \o ContactLine \o <<"\n", "\n">>
    \o HeaderLine \o <<"\n">> \o RoleLine \o <<"\n">>
    \o Repeat(BulletLine \o <<"\n">>, k - 1) \o BulletLine \o b

\* C1 (as claimed): for that text the parser emits Title(name),
\* ContactLine(contact), SectionHeading(header), JobTitle(role line) and one
\* Bullet per bullet line, marker stripped, in this order.
C1_ResumeExample ==
    \A k \in 1..MaxLines : \A b \in Breaks :
        (mode = "text" /\ pc # "start" /\ input = ResumeText(k, b)) =>
            blocks = <<Block("title", NameLine), Block("contact", ContactLine),
                       Block("section", HeaderLine), Block("job_title", RoleLine)>>
                     \o Repeat(<<Block("bullet", <<"D","i","d"," ","x">>)>>, k)

\* the paragraphs of a text, and the lines of a paragraph
Paragraphs(text) == SelectNonBlank(Split(text, <<"\n", "\n">>))
LinesOf(para) == SelectNonBlank(Split(para, <<"\n">>))
AllBulletLines(para) ==
    \A k \in 1..Len(LinesOf(para)) :
        LET t == LinesOf(para)[k]
        IN  t[1] \in ListedMarkers
\* a bullet line's text: the normalized line without its one leading marker
\* and the whitespace after it
BulletText(line) == LStrip(Tail(normalize_bullet_line(line)))
BulletsOf(para) ==
    [k \in 1..Len(LinesOf(para)) |-> Block("bullet", BulletText(LinesOf(para)[k]))]

\* C10 (as claimed): in the blocks the parser returns, a paragraph made
\* only of bullet lines gives one Bullet per line, marker stripped, in
\* order, and no other block.
C10_BulletOnlyParagraph ==
    (mode = "text" /\ pc = "render" /\ i = 0) =>
        LET ps == Paragraphs(input)
        IN  \A k \in 1..Len(ps) :
               AllBulletLines(ps[k]) =>
                  blocks = ParseFrom(SubSeq(ps, 1, k - 1), TRUE)
                           \o BulletsOf(ps[k])
                           \o ParseFrom(SubSeq(ps, k + 1, Len(ps)), FALSE)

\* C10 (amended): in the blocks the parser returns, a paragraph other than
\* the first that is made only of bullet lines and whose first line is not
\* a section header gives one Bullet per line, marker stripped, in order,
\* and no other block.
C10_LaterBulletOnlyParagraph ==
    (mode = "text" /\ pc = "render" /\ i = 0) =>
        LET ps == Paragraphs(input)
        IN  \A k \in 2..Len(ps) :
               (AllBulletLines(ps[k]) /\ ~is_section_header(LinesOf(ps[k])[1])) =>
                  blocks = ParseFrom(SubSeq(ps, 1, k - 1), TRUE)
                           \o BulletsOf(ps[k])
                           \o ParseFrom(SubSeq(ps, k + 1, Len(ps)), FALSE)

\* C10 witness: a text ending in a paragraph of two bullet lines was parsed,
\* and its last two blocks are their bullets.
C10_Witness ==
    /\ mode = "text" /\ pc = "render"
    /\ Len(Paragraphs(input)) = 2
    /\ LinesOf(Paragraphs(input)[2]) = <<DoubleBulletLine, BulletLine>>
    /\ Len(blocks) >= 3
    /\ SubSeq(blocks, Len(blocks) - 1, Len(blocks))
          = <<Block("bullet", <<"-"," ","y">>), Block("bullet", <<"D","i","d"," ","x">>)>>
    /\ \A k \in 1..Len(blocks) : blocks[k].type # "job_title"


(***************************************************************************)
(* The regular expressions of the HTML parser (re.IGNORECASE, re.DOTALL).  *)
(***************************************************************************)
NoMatch == [start |-> -1, end |-> -1]

\* the first ">" at or after offset a, or -1
FirstGt(str, a) == Find(str, <<">">>, a)

\* re.search(open + r"[^>]*>", str[a:]): open is "<ul", "<p", "<h2" or
\* "<li"; the offsets returned are offsets of str
TagSearch(str, open, a) ==
    LET hits == {q \in a..Len(str) :
                    MatchAtCI(str, open, q) /\ FirstGt(str, q + Len(open)) # -1}
    IN  IF hits = {} THEN NoMatch
        ELSE [start |-> SetMin(hits),
              end   |-> FirstGt(str, SetMin(hits) + Len(open)) + 1]

\* re.search(close, str[a:]) for a literal close tag
CloseSearch(str, close, a) ==
    LET q == FindCI(str, close, a)
    IN  IF q = -1 THEN NoMatch ELSE [start |-> q, end |-> q + Len(close)]

\* re.finditer(open + r"([^>]*)>(.*?)" + close, str) from offset a: the
\* matches in order, each with its start, its attributes and its inner text
RECURSIVE ElementMatches(_, _, _, _)
ElementMatches(str, open, close, a) ==
    LET hits == {q \in a..Len(str) :
                    /\ MatchAtCI(str, open, q)
                    /\ FirstGt(str, q + Len(open)) # -1
                    /\ FindCI(str, close, FirstGt(str, q + Len(open)) + 1) # -1}
    IN  IF hits = {} THEN <<>>
        ELSE LET p  == SetMin(hits)
                 gt == FirstGt(str, p + Len(open))
                 c  == FindCI(str, close, gt + 1)
             IN  <<[start |-> p,
                    attrs |-> Slice(str, p + Len(open), gt),
                    inner |-> Slice(str, gt + 1, c)]>>
                 \o ElementMatches(str, open, close, c + Len(close))

\* re.sub(r"^" + open + r"[^>]*>", "", str)
SubLeadingTag(str, open) ==
    IF MatchAtCI(str, open, 0) /\ FirstGt(str, Len(open)) # -1
    THEN From(str, FirstGt(str, Len(open)) + 1) ELSE str

\* re.sub(close + r"\s*$", "", str)
SubTrailingTag(str, close) ==
    LET hits == {q \in 0..Len(str) :
                    /\ MatchAtCI(str, close, q)
                    /\ \A k \in (q + Len(close) + 1)..Len(str) : IsSpace(str[k])}
    IN  IF hits = {} THEN str ELSE Slice(str, 0, SetMin(hits))

\* str.replace(pat, rep) / re.sub of a literal pattern
RECURSIVE ReplaceAll(_, _, _)
ReplaceAll(str, pat, rep) ==
    LET q == Find(str, pat, 0)
    IN  IF q = -1 THEN str
        ELSE Slice(str, 0, q) \o rep \o ReplaceAll(From(str, q + Len(pat)), pat, rep)

\* skip \s* from offset a
RECURSIVE SkipSpace(_, _)
SkipSpace(str, a) ==
    IF a < Len(str) /\ IsSpace(str[a + 1]) THEN SkipSpace(str, a + 1) ELSE a

AlignWords == <<<<"l","e","f","t">>, <<"c","e","n","t","e","r">>, <<"r","i","g","h","t">>, <<"j","u","s","t","i","f","y">>>>
AlignNames == <<"left", "center", "right", "justify">>
\* the word of (left|center|right|justify) at offset a, or <<>>
AlignWordAt(str, a) ==
    IF \E w \in 1..4 : MatchAtCI(str, AlignWords[w], a)
    THEN AlignWords[CHOOSE w \in 1..4 : MatchAtCI(str, AlignWords[w], a)]
    ELSE <<>>
\* m_align.group(1).lower(), as the str it is
AlignName(word) == AlignNames[CHOOSE w \in 1..4 : Lower(word) = AlignWords[w]]

\* lines 348 and 361: text-align\s*:\s*(left|center|right|justify)
StyleAlignAt(attrs, p) ==
    LET a == SkipSpace(attrs, p + 10)
    IN  IF MatchAtCI(attrs, <<"t","e","x","t","-","a","l","i","g","n">>, p) /\ MatchAt(attrs, <<":">>, a)
        THEN AlignWordAt(attrs, SkipSpace(attrs, a + 1)) ELSE <<>>
\* lines 350 and 363: data-text-align=["'](left|center|right|justify)["']
QuoteAt(str, a) == MatchAt(str, <<"\"">>, a) \/ MatchAt(str, <<"'">>, a)
DataAlignAt(attrs, p) ==
    LET w == AlignWordAt(attrs, p + 17)
    IN  IF /\ MatchAtCI(attrs, <<"d","a","t","a","-","t","e","x","t","-","a","l","i","g","n","=">>, p)
           /\ QuoteAt(attrs, p + 16)
           /\ w # <<>>
           /\ QuoteAt(attrs, p + 17 + Len(w))
        THEN w ELSE <<>>

\* lines 347-352: the captured alignment, lower-cased, or "None"
AlignOf(attrs) ==
    LET sh == {p \in 0..Len(attrs) : StyleAlignAt(attrs, p) # <<>>}
        dh == {p \in 0..Len(attrs) : DataAlignAt(attrs, p) # <<>>}
    IN  IF sh # {} THEN AlignName(StyleAlignAt(attrs, SetMin(sh)))
        ELSE IF dh # {} THEN AlignName(DataAlignAt(attrs, SetMin(dh)))
        ELSE "None"


(***************************************************************************)
(* pdf_gen.py, lines 297-323: _find_ul_ranges, one action per loop step.   *)
(* Called at line 336 on the cleaned input s; i, j, start, depth and       *)
(* ranges are its locals.                                                  *)
(***************************************************************************)
UL_OPEN == <<"<","u","l">>
UL_CLOSE == <<"<","/","u","l",">">>

\* lines 333-336: strip, drop the wrapper tags, call _find_ul_ranges
CleanHtml ==
    /\ mode = "html" /\ pc = "start"
    /\ s' = ReplaceAll(ReplaceAll(ReplaceAll(ReplaceAll(Strip(input),
               <<"<","d","i","v",">">>, <<>>), <<"<","/","d","i","v",">">>, <<>>), <<"<","b","o","d","y",">">>, <<>>),
               <<"<","/","b","o","d","y",">">>, <<>>)
    /\ ranges' = <<>> /\ i' = 0 /\ j' = 0 /\ start' = 0 /\ depth' = 0
    /\ pc' = "ul_outer"
    /\ UNCHANGED <<mode, input, res, blocks, flowables, doc, ordered>>

\* lines 301-307: the next top-level opening tag
UlOpen ==
    /\ mode = "html" /\ pc = "ul_outer"
    /\ i < Len(s)
    /\ LET ul_open == TagSearch(s, UL_OPEN, i)
       IN  /\ ul_open # NoMatch
           /\ start' = ul_open.start
           /\ j' = ul_open.end
    /\ depth' = 1
    /\ pc' = "ul_inner"
    /\ UNCHANGED <<mode, input, res, blocks, flowables, i, doc, s, ranges, ordered>>

\* lines 301-304 and 323: the outer loop ends (end of input, or no tag left)
UlReturn ==
    /\ mode = "html" /\ pc = "ul_outer"
    /\ i >= Len(s) \/ TagSearch(s, UL_OPEN, i) = NoMatch
    /\ pc' = "extract"
    /\ UNCHANGED <<mode, input, res, blocks, flowables, i, doc,
                   s, ranges, start, j, depth, ordered>>

\* lines 311-312: pos_ul or pos_end of a match: relative to j, len(s) + 1
\* when there is none
PosOf(m) == IF m = NoMatch THEN Len(s) + 1 ELSE m.start - j

\* lines 313-318: a closing tag comes first
UlClose ==
    /\ mode = "html" /\ pc = "ul_inner"
    /\ depth > 0 /\ j < Len(s)
    /\ LET next_ul  == TagSearch(s, UL_OPEN, j)
           next_end == CloseSearch(s, UL_CLOSE, j)
       IN  /\ PosOf(next_end) < PosOf(next_ul)
           /\ depth' = depth - 1
           /\ j' = next_end.end
           /\ IF depth - 1 = 0
              THEN /\ ranges' = Append(ranges, <<start, next_end.end>>)
                   /\ i' = next_end.end
                   /\ pc' = "ul_outer"
              ELSE UNCHANGED <<ranges, i, pc>>
    /\ UNCHANGED <<mode, input, res, blocks, flowables, doc, s, start, ordered>>

\* a plausible slip: a nested opening tag leaves the depth as it is
SameDepth(d) == d

\* line 320: depth += 1
Deeper(d) == d + 1

\* lines 319-321: a nested opening tag comes first
UlNest ==
    /\ mode = "html" /\ pc = "ul_inner"
    /\ depth > 0 /\ j < Len(s)
    /\ LET next_ul  == TagSearch(s, UL_OPEN, j)
           next_end == CloseSearch(s, UL_CLOSE, j)
       IN  /\ ~(PosOf(next_end) < PosOf(next_ul))
           /\ next_ul # NoMatch
           /\ j' = next_ul.end
    /\ depth' = Deeper(depth)
    /\ UNCHANGED <<mode, input, pc, res, blocks, flowables, i, doc,
                   s, ranges, start, ordered>>

\* lines 319-321 with next_ul None: next_ul.end() raises AttributeError,
\* which leaves _find_ul_ranges, _parse_simple_html_to_blocks and
\* html_to_pdf_bytes
UlRaise ==
    /\ mode = "html" /\ pc = "ul_inner"
    /\ depth > 0 /\ j < Len(s)
    /\ LET next_ul  == TagSearch(s, UL_OPEN, j)
           next_end == CloseSearch(s, UL_CLOSE, j)
       IN  /\ ~(PosOf(next_end) < PosOf(next_ul))
           /\ next_ul = NoMatch
    /\ depth' = Deeper(depth)
    /\ pc' = "raised"
    /\ UNCHANGED <<mode, input, res, blocks, flowables, i, doc,
                   s, ranges, start, j, ordered>>

\* lines 308 and 322: the inner loop ends at the end of the input
UlInnerEnd ==
    /\ mode = "html" /\ pc = "ul_inner"
    /\ ~(depth > 0 /\ j < Len(s))
    /\ i' = j
    /\ pc' = "ul_outer"
    /\ UNCHANGED <<mode, input, res, blocks, flowables, doc,
                   s, ranges, start, j, depth, ordered>>


(***************************************************************************)
(* pdf_gen.py, lines 338-386: the rest of _parse_simple_html_to_blocks.    *)
(***************************************************************************)
\* a plausible slip: no offset counts as inside a list
NeverInside(pos) == FALSE

\* lines 338-339
inside_ul(pos) ==
    \E k \in 1..Len(ranges) : ranges[k][1] <= pos /\ pos < ranges[k][2]

\* lines 342-354 and 355-367: the entries of the <p> (or <h2>) matches
RECURSIVE TagEntries(_, _)
TagEntries(ms, kind) ==
    IF ms = <<>> THEN <<>>
    ELSE (IF ~inside_ul(ms[1].start) /\ Strip(ms[1].inner) # <<>>
          THEN <<[off |-> ms[1].start, kind |-> kind,
                  payload |-> [text  |-> Strip(ms[1].inner),
                               align |-> AlignOf(ms[1].attrs)]]>>
          ELSE <<>>)
         \o TagEntries(Tail(ms), kind)

\* lines 373-379: the items of the <li> matches
RECURSIVE LiItems(_)
LiItems(ms) ==
    IF ms = <<>> THEN <<>>
    ELSE (IF Strip(ms[1].inner) = <<>> THEN <<>>
          ELSE <<Strip(SubTrailingTag(SubLeadingTag(Strip(ms[1].inner), <<"<","p">>),
                                      <<"<","/","p",">">>))>>)
         \o LiItems(Tail(ms))

\* lines 369-372: the items of the list s[start:end]
UlItems(r) ==
    LET ul_inner == SubTrailingTag(SubLeadingTag(Slice(s, r[1], r[2]), UL_OPEN),
                                   UL_CLOSE)
    IN  LiItems(ElementMatches(ul_inner, <<"<","l","i">>, <<"<","/","l","i",">">>, 0))

\* lines 368-381: the entries of the lists
RECURSIVE UlEntries(_)
UlEntries(rs) ==
    IF rs = <<>> THEN <<>>
    ELSE (IF UlItems(rs[1]) # <<>>
          THEN <<[off |-> rs[1][1], kind |-> "ul", payload |-> UlItems(rs[1])]>>
          ELSE <<>>)
         \o UlEntries(Tail(rs))

\* line 382: the insertion of one entry into the sorted ones, after the
\* entries with the same offset
RECURSIVE InsertByOff(_, _)
InsertByOff(sorted, x) ==
    IF sorted = <<>> THEN <<x>>
    ELSE IF sorted[1].off <= x.off
    THEN <<sorted[1]>> \o InsertByOff(Tail(sorted), x)
    ELSE <<x>> \o sorted
RECURSIVE SortFrom(_, _)
SortFrom(entries, sorted) ==
    IF entries = <<>> THEN sorted
    ELSE SortFrom(Tail(entries), InsertByOff(sorted, entries[1]))
\* a plausible slip: the merge of the three scans is left unsorted
Unsorted(entries) == entries

\* line 382: ordered.sort(key=lambda x: x[0]), a stable sort
SortByOff(entries) == SortFrom(entries, <<>>)

\* a plausible slip: the fallback paragraph is made even when nothing is left
FallbackAlways(sorted, str) ==
    IF sorted = <<>>
    THEN <<[kind |-> "p", payload |-> [text |-> str, align |-> "None"]]>>
    ELSE [k \in 1..Len(sorted) |->
             [kind |-> sorted[k].kind, payload |-> sorted[k].payload]]

\* lines 383-385: the blocks without their offsets, or the whole input as one
\* paragraph when nothing was extracted and the input is not empty
BlocksOrFallback(sorted, str) ==
    IF sorted = <<>> /\ str # <<>>
    THEN <<[kind |-> "p", payload |-> [text |-> str, align |-> "None"]]>>
    ELSE [k \in 1..Len(sorted) |->
             [kind |-> sorted[k].kind, payload |-> sorted[k].payload]]

\* lines 341-386
ExtractBlocks ==
    /\ mode = "html" /\ pc = "extract"
    /\ LET all == TagEntries(ElementMatches(s, <<"<","p">>, <<"<","/","p",">">>, 0), "p")
                  \o TagEntries(ElementMatches(s, <<"<","h","2">>, <<"<","/","h","2",">">>, 0), "h2")
                  \o UlEntries(ranges)
           sorted == SortByOff(all)
       IN  /\ ordered' = sorted
           /\ blocks' = BlocksOrFallback(sorted, s)
    /\ flowables' = <<>>
    /\ i' = 0
    /\ pc' = "h_render"
    /\ UNCHANGED <<mode, input, res, doc, s, ranges, start, j, depth>>

(***************************************************************************)
(* pdf_gen.py, lines 389-474: _html_inline_to_reportlab, html_to_pdf_bytes.*)
(***************************************************************************)
\* re.sub(r"</?tag>", "", str): one pass that drops both tags
RECURSIVE RemoveTags(_, _, _)
RemoveTags(str, open, close) ==
    LET qo == Find(str, open, 0)
        qc == Find(str, close, 0)
    IN  IF qo = -1 /\ qc = -1 THEN str
        ELSE IF qc = -1 \/ (qo # -1 /\ qo < qc)
        THEN Slice(str, 0, qo) \o RemoveTags(From(str, qo + Len(open)), open, close)
        ELSE Slice(str, 0, qc) \o RemoveTags(From(str, qc + Len(close)), open, close)

html_inline_to_reportlab(html) ==
    LET s1 == escape_amp_for_reportlab(BoldFrom(html, 0))
        s2 == RemoveTags(s1, <<"<","s","t","r","o","n","g",">">>, <<"<","/","s","t","r","o","n","g",">">>)
        s3 == ReplaceAll(ReplaceAll(s2, <<"<","s","t","r","o","n","g",">">>, <<"<","b",">">>),
                         <<"<","/","s","t","r","o","n","g",">">>, <<"<","/","b",">">>)
        s4 == RemoveTags(s3, <<"<","e","m",">">>, <<"<","/","e","m",">">>)
    IN  ReplaceAll(ReplaceAll(s4, <<"<","e","m",">">>, <<"<","i",">">>), <<"<","/","e","m",">">>, <<"<","/","i",">">>)

\* lines 96, 105 and 88-148: the alignment of the named styles
StyleAlignment(key) == IF key \in {"title", "contact"} THEN 1 ELSE 0
StyleName(key) ==
    CASE key = "title" -> "Title" [] key = "contact" -> "Contact"
      [] key = "section" -> "Section" [] key = "body" -> "Body"
      [] key = "job_title" -> "JobTitle" [] OTHER -> "BulletText"

\* lines 421-440
style_with_alignment(base_style, align) ==
    IF align = "None" THEN base_style
    ELSE [name |-> <<StyleName(base_style), "-", align>>,
          parent |-> base_style,
          alignment |-> CASE align = "left" -> 0 [] align = "center" -> 1
                          [] align = "right" -> 2 [] align = "justify" -> 4
                          [] OTHER -> StyleAlignment(base_style)]

\* lines 469-471
RECURSIVE ItemParas(_)
ItemParas(items) ==
    IF items = <<>> THEN <<>>
    ELSE <<Para(LIST_MARKER \o html_inline_to_reportlab(items[1]), "bullet_text")>>
         \o ItemParas(Tail(items))

\* lines 442-471: one iteration of the for loop
RenderHtmlBlock ==
    /\ mode = "html" /\ pc = "h_render"
    /\ i < Len(blocks)
    /\ LET kind == blocks[i + 1].kind
           payload == blocks[i + 1].payload
       IN  flowables' = flowables \o
             (IF kind = "p"
              THEN LET text == html_inline_to_reportlab(payload.text)
                   IN  <<Para(IF text = <<>> THEN <<" ">> ELSE text,
                              style_with_alignment(
                                  IF i = 0 THEN "title" ELSE "body",
                                  payload.align))>>
              ELSE IF kind = "h2"
              THEN <<Para(<<"<","b",">">> \o html_inline_to_reportlab(payload.text)
                          \o <<"<","/","b",">">>,
                          style_with_alignment("section", payload.align)),
                     Rule("#333333"), Spacer4>>
              ELSE ItemParas(payload))
    /\ i' = i + 1
    /\ UNCHANGED <<mode, input, pc, res, blocks, doc,
                   s, ranges, start, j, depth, ordered>>

\* lines 472-474: doc.build(flowables), and the buffer is returned
BuildHtml ==
    /\ mode = "html" /\ pc = "h_render"
    /\ i >= Len(blocks)
    /\ doc' = "pdf"
    /\ pc' = "done"
    /\ UNCHANGED <<mode, input, res, blocks, flowables, i,
                   s, ranges, start, j, depth, ordered>>

NextHtml ==
    \/ CleanHtml \/ UlOpen \/ UlReturn \/ UlClose \/ UlNest \/ UlRaise
    \/ UlInnerEnd \/ ExtractBlocks \/ RenderHtmlBlock \/ BuildHtml

(***************************************************************************)
(* Inputs of the HTML pipeline: concatenations of at most MaxHtmlFrags     *)
(* fragments, whitespace-only inputs, and an empty wrapper.                *)
(***************************************************************************)
BareUl == <<"<","U","L",">">>
OpenItem == <<"<","u","l",">","<","l","i",">","x">>
CloseItem == <<"<","/","l","i",">","<","/","u","l",">">>
ParaElem == <<"<","p",">","a","<","/","p",">">>
HeadElem == <<"<","h","2",">","b","<","/","h","2",">">>
HtmlFrags == {BareUl, OpenItem, CloseItem, ParaElem, HeadElem}
HtmlsOver(frags, n) ==
    {Flatten(t) : t \in UNION {[1..m -> frags] : m \in 0..n}}
HtmlInputs ==
    HtmlsOver(HtmlFrags, MaxHtmlFrags) \cup BlankTexts \cup {<<"<","d","i","v",">","<","/","d","i","v",">">>}

InitHtml ==
    /\ mode = "html"
    /\ input \in HtmlInputs
    /\ pc = "start"
    /\ res = NoRes
    /\ blocks = <<>> /\ flowables = <<>> /\ i = 0 /\ doc = "none"
    /\ s = <<>> /\ ranges = <<>> /\ start = 0 /\ j = 0 /\ depth = 0
    /\ ordered = <<>>

SpecHtml == InitHtml /\ [][NextHtml]_vars

\* both entry points
Init == InitText \/ InitHtml
Next == NextText \/ NextHtml
Spec == Init /\ [][Next]_vars

(***************************************************************************)
(* Inputs of the HTML pipeline with inline markup: a paragraph with        *)
(* <strong>, a heading with <em>, and a list item with literal ** pairs.   *)
(***************************************************************************)
StrongPara == <<"<","p",">","<","s","t","r","o","n","g",">","a","<","/","s","t","r","o","n","g",">","<","/","p",">">>
EmHead == <<"<","h","2",">","<","e","m",">","b","<","/","e","m",">","<","/","h","2",">">>
StarItem == <<"<","u","l",">","<","l","i",">","*","*","x","*","*">>
InlineFrags == {BareUl, StarItem, CloseItem, StrongPara, EmHead}
InitInline ==
    /\ mode = "html"
    /\ input \in HtmlsOver(InlineFrags, MaxHtmlFrags)
    /\ pc = "start"
    /\ res = NoRes
    /\ blocks = <<>> /\ flowables = <<>> /\ i = 0 /\ doc = "none"
    /\ s = <<>> /\ ranges = <<>> /\ start = 0 /\ j = 0 /\ depth = 0
    /\ ordered = <<>>

SpecInline == InitInline /\ [][NextHtml]_vars

(***************************************************************************)
(* Inputs of the HTML pipeline with a captured alignment: paragraphs with  *)
(* and without a text-align style, between headings and lists.             *)
(***************************************************************************)
RightPara == <<"<","p"," ","s","t","y","l","e","=","\"","t","e","x","t","-","a","l","i","g","n",":"," ","r","i","g","h","t","\"",">","c","<","/","p",">">>
AlignFrags == {BareUl, OpenItem, CloseItem, ParaElem, RightPara, HeadElem}
InitAlign ==
    /\ mode = "html"
    /\ input \in HtmlsOver(AlignFrags, MaxHtmlFrags)
    /\ pc = "start"
    /\ res = NoRes
    /\ blocks = <<>> /\ flowables = <<>> /\ i = 0 /\ doc = "none"
    /\ s = <<>> /\ ranges = <<>> /\ start = 0 /\ j = 0 /\ depth = 0
    /\ ordered = <<>>

SpecAlign == InitAlign /\ [][NextHtml]_vars

(***************************************************************************)
(* Inputs of the HTML pipeline with paragraphs in list items: list tags,   *)
(* an item that wraps its text in one <p>, paragraphs and headings.        *)
(***************************************************************************)
UlOpenTag == <<"<","u","l",">">>
UlCloseTag == <<"<","/","u","l",">">>
NestedItem == <<"<","l","i",">","<","p",">","q","<","/","p",">","<","/","l","i",">">>
NestedFrags == {UlOpenTag, NestedItem, UlCloseTag, ParaElem, HeadElem}
InitNested ==
    /\ mode = "html"
    /\ input \in HtmlsOver(NestedFrags, MaxHtmlFrags)
    /\ pc = "start"
    /\ res = NoRes
    /\ blocks = <<>> /\ flowables = <<>> /\ i = 0 /\ doc = "none"
    /\ s = <<>> /\ ranges = <<>> /\ start = 0 /\ j = 0 /\ depth = 0
    /\ ordered = <<>>

SpecNested == InitNested /\ [][NextHtml]_vars


(***************************************************************************)
(* Claims about the HTML pipeline and the two entry points.                *)
(***************************************************************************)
\* the list tag at offset a of str, or "none"
ListTagAt(str, a) ==
    IF MatchAtCI(str, UL_OPEN, a) /\ FirstGt(str, a + 3) # -1 THEN "ul"
    ELSE IF MatchAtCI(str, UL_CLOSE, a) THEN "/ul"
    ELSE IF MatchAtCI(str, <<"<","l","i">>, a) /\ FirstGt(str, a + 3) # -1 THEN "li"
    ELSE IF MatchAtCI(str, <<"<","/","l","i",">">>, a) THEN "/li"
    ELSE "none"
\* the list tags of str in order, each with its offset
RECURSIVE TagsAt(_, _)
TagsAt(str, offs) ==
    IF offs = {} THEN <<>>
    ELSE <<[tag |-> ListTagAt(str, SetMin(offs)), off |-> SetMin(offs)]>>
         \o TagsAt(str, offs \ {SetMin(offs)})
ListTags(str) ==
    TagsAt(str, {q \in 0..(Len(str) - 1) : ListTagAt(str, q) # "none"})
UlOpens(str) == {q \in 0..(Len(str) - 1) : ListTagAt(str, q) = "ul"}
\* the number of <ul> opening tags left open at the end of the tags
RECURSIVE OpenAtEnd(_, _)
OpenAtEnd(tags, d) ==
    IF tags = <<>> THEN d
    ELSE IF tags[1].tag = "ul" THEN OpenAtEnd(Tail(tags), d + 1)
    ELSE IF tags[1].tag = "/ul" /\ d > 0 THEN OpenAtEnd(Tail(tags), d - 1)
    ELSE OpenAtEnd(Tail(tags), d)
HasUnclosedUl(str) == OpenAtEnd(ListTags(str), 0) > 0
\* the lists of str are well formed: a list holds items only, an item is
\* closed before its list is, a nested list sits inside an item; open is the
\* stack of the open elements, innermost first
RECURSIVE ListsWellFormed(_, _)
ListsWellFormed(tags, open) ==
    IF tags = <<>> THEN open = <<>>
    ELSE LET t == tags[1].tag
         IN  CASE t = "ul"  -> (open = <<>> \/ open[1] = "li")
                               /\ ListsWellFormed(Tail(tags), <<"ul">> \o open)
               [] t = "li"  -> open # <<>> /\ open[1] = "ul"
                               /\ ListsWellFormed(Tail(tags), <<"li">> \o open)
               [] t = "/li" -> open # <<>> /\ open[1] = "li"
                               /\ ListsWellFormed(Tail(tags), Tail(open))
               [] OTHER     -> open # <<>> /\ open[1] = "ul"
                               /\ ListsWellFormed(Tail(tags), Tail(open))
\* some <ul> opens while another is open
RECURSIVE HasNestedUl(_, _)
HasNestedUl(tags, d) ==
    IF tags = <<>> THEN FALSE
    ELSE IF tags[1].tag = "ul" THEN d > 0 \/ HasNestedUl(Tail(tags), d + 1)
    ELSE IF tags[1].tag = "/ul" THEN HasNestedUl(Tail(tags), d - 1)
    ELSE HasNestedUl(Tail(tags), d)
Scanned == mode = "html" /\ pc \in {"extract", "h_render", "done"}
Parsed == mode = "html" /\ pc \in {"h_render", "done"}

\* C2 (as claimed): for an input holding a <ul> opening tag that is never
\* closed, the scanner does not raise, and on return the span of the
\* unmatched tag runs to the end of the input.
C2_UnclosedUlReturns ==
    (mode = "html" /\ pc # "start" /\ HasUnclosedUl(s)) =>
        /\ pc # "raised"
        /\ Scanned => \E k \in 1..Len(ranges) : ranges[k][2] = Len(s)

\* C3: for the empty string, and for any input that is whitespace only, no
\* entry point raises and the block list is empty; and whenever the block
\* list is empty the flowable list is built empty and the document is
\* produced.
C3_EmptyRendersDocument ==
    /\ AllSpace(input) =>
          /\ pc \in {"start", "render", "ul_outer", "extract", "h_render", "done"}
          /\ pc \in {"render", "h_render", "done"} => blocks = <<>>
    /\ (pc = "done" /\ blocks = <<>>) => (flowables = <<>> /\ doc = "pdf")

\* C3 witness: the empty string went through html_to_pdf_bytes and a
\* document with no flowable was produced.
C3_Witness ==
    mode = "html" /\ input = <<>> /\ pc = "done" /\ blocks = <<>> /\ doc = "pdf"

\* the opening tag of a block kind
OpenTagOf(kind) ==
    CASE kind = "p" -> <<"<","p">> [] kind = "h2" -> <<"<","h","2">> [] OTHER -> UL_OPEN

\* C4: the extracted entries are in strictly increasing order of the offset
\* of their source element in the cleaned input, each offset is where an
\* element of the entry's kind opens, and the blocks are these entries in
\* that order.
C4_DocumentOrder ==
    Parsed =>
        /\ \A k \in 1..(Len(ordered) - 1) : ordered[k].off < ordered[k + 1].off
        /\ \A k \in 1..Len(ordered) :
              MatchAtCI(s, OpenTagOf(ordered[k].kind), ordered[k].off)
        /\ ordered # <<>> =>
              blocks = [k \in 1..Len(ordered) |->
                           [kind |-> ordered[k].kind, payload |-> ordered[k].payload]]

\* C4 witness: a list, a heading and a paragraph in that source order were
\* parsed into a list, a heading and a paragraph in that order.
C4_Witness ==
    /\ Parsed /\ Len(blocks) = 3
    /\ blocks[1].kind = "ul" /\ blocks[2].kind = "h2" /\ blocks[3].kind = "p"

\* the <ul> blocks whose source offset lies in the span r
UlBlocksIn(r) ==
    {n \in 1..Len(ordered) :
        ordered[n].kind = "ul" /\ r[1] <= ordered[n].off /\ ordered[n].off < r[2]}

\* C5: for an input whose lists are well formed and in which a list is
\* nested in another, every span returned starts at a <ul> and is a whole
\* list (as many closing tags as opening tags), every <ul> of the input
\* lies in a span, the spans are pairwise disjoint, and the parser emits
\* exactly one list block per span, placed at the start of the span.
C5_NestedUlOneSpan ==
    (Scanned /\ ListsWellFormed(ListTags(s), <<>>) /\ HasNestedUl(ListTags(s), 0)) =>
        /\ \A k \in 1..Len(ranges) :
              /\ ranges[k][1] \in UlOpens(s)
              /\ ListsWellFormed(ListTags(Slice(s, ranges[k][1], ranges[k][2])), <<>>)
        /\ \A q \in UlOpens(s) :
              \E k \in 1..Len(ranges) : ranges[k][1] <= q /\ q < ranges[k][2]
        /\ \A k \in 1..Len(ranges) : \A l \in (k + 1)..Len(ranges) :
              ranges[k][2] <= ranges[l][1]
        /\ Parsed =>
              \A k \in 1..Len(ranges) :
                 /\ Cardinality(UlBlocksIn(ranges[k])) = 1
                 /\ \A n \in UlBlocksIn(ranges[k]) : ordered[n].off = ranges[k][1]

\* C5 witness: a list nested in an item of another list was parsed into one
\* span over the whole input and one list block.
C5_Witness ==
    /\ Parsed /\ HasNestedUl(ListTags(s), 0) /\ ListsWellFormed(ListTags(s), <<>>)
    /\ ranges = <<<<0, Len(s)>>>>
    /\ Len(blocks) = 1 /\ blocks[1].kind = "ul"


(***************************************************************************)
(* Claims about the order of the blocks and about rendering.               *)
(***************************************************************************)
\* the non-empty lines of a text, trimmed, in order
RECURSIVE LinesOfAll(_)
LinesOfAll(paras) ==
    IF paras = <<>> THEN <<>> ELSE LinesOf(paras[1]) \o LinesOfAll(Tail(paras))
AllLines(text) == LinesOfAll(Paragraphs(text))
\* the block b holds the text of the lines ls and nothing else: a title, a
\* section or a bullet holds one line (a bullet without its marker), a
\* contact line holds its lines joined by " | ", a job title or a body holds
\* its lines joined by a space
BlockHolds(b, ls) ==
    CASE b.type = "bullet" ->
            /\ Len(ls) = 1
            /\ b.content = (IF ls[1][1] \in ListedMarkers THEN BulletText(ls[1])
                            ELSE ls[1])
      [] b.type = "contact" -> b.content = Join(ls, <<" ", "|", " ">>)
      [] b.type \in {"job_title", "body"} -> b.content = Join(ls, <<" ">>)
      [] OTHER -> Len(ls) = 1 /\ b.content = ls[1]
\* the blocks bs hold the lines, each line in exactly one block, in order
RECURSIVE InLineOrder(_, _)
InLineOrder(lines, bs) ==
    IF bs = <<>> THEN lines = <<>>
    ELSE \E n \in 1..Len(lines) :
            /\ BlockHolds(bs[1], SubSeq(lines, 1, n))
            /\ InLineOrder(SubSeq(lines, n + 1, Len(lines)), Tail(bs))

\* C11: the blocks the parser returns hold the non-empty lines of the input,
\* each line in exactly one block and the blocks in the order of their
\* lines; no line is dropped and no block is without a line.
C11_BlocksInLineOrder ==
    (mode = "text" /\ pc = "render" /\ i = 0) =>
        InLineOrder(AllLines(input), blocks)

\* C11 witness: a bullet paragraph with a role line, a bullet and a second
\* role line was parsed: the first title, its bullet, then the next title.
C11_Witness ==
    /\ mode = "text" /\ pc = "render" /\ i = 0
    /\ blocks = <<Block("title", NameLine), Block("contact", ContactLine),
                  Block("job_title", RoleLine),
                  Block("bullet", <<"D","i","d"," ","x">>),
                  Block("job_title", RoleLine)>>

\* C12 (as claimed): for every non-empty line that starts with the bold
\* marker "**", looks_like_job_or_project_title returns true.
C12_BoldLineIsJobTitle ==
    (mode = "line" /\ pc # "start" /\ MatchAt(Strip(input), <<"*", "*">>, 0)) =>
        res.is_job

(***************************************************************************)
(* The text pipeline on texts made of headings, plain and bold, and bullet  *)
(* lines.                                                                  *)
(***************************************************************************)
BoldHeaderLine == <<"*","*","S","K","I","L","L","S","*","*">>
BoldMixedLine == <<"*","*","W","o","r","k","*","*">>
HeadingFrags == {HeaderLine, BoldHeaderLine, BoldMixedLine, BulletLine}
InitHeadings ==
    /\ mode = "text"
    /\ input \in TextsOver(HeadingFrags, MaxLines)
    /\ pc = "start"
    /\ res = NoRes
    /\ blocks = <<>> /\ flowables = <<>> /\ i = 0 /\ doc = "none"
    /\ s = <<>> /\ ranges = <<>> /\ start = 0 /\ j = 0 /\ depth = 0
    /\ ordered = <<>>

SpecHeadings == InitHeadings /\ [][NextText]_vars

\* the section blocks, in order
RECURSIVE SectionBlocks(_)
SectionBlocks(bs) ==
    IF bs = <<>> THEN <<>>
    ELSE (IF bs[1].type = "section" THEN <<bs[1]>> ELSE <<>>)
         \o SectionBlocks(Tail(bs))
\* the positions of the section paragraphs in the flowables, in order
SectionParas(fs) ==
    {k \in 1..Len(fs) : fs[k].kind = "Paragraph" /\ fs[k].style = "section"}
\* the heading text the claim describes: the surrounding ** removed, then
\* title case when what remains is fully upper-case
Unwrapped(str) ==
    IF WrappedInStars(str) THEN SubSeq(str, 3, Len(str) - 2) ELSE str
DisplayedHeading(str) ==
    LET h == Strip(Unwrapped(str))
    IN  IF IsUpper(h) THEN Title(h) ELSE h
\* the text a paragraph shows: its markup without the bold tags
Visible(text) == RemoveTags(text, <<"<","b",">">>, <<"<","/","b",">">>)
\* the k-th smallest element of a set of numbers
RECURSIVE Nth(_, _)
Nth(set, k) == IF k = 1 THEN SetMin(set) ELSE Nth(set \ {SetMin(set)}, k - 1)

\* C13 (as claimed): in the finished flowable list the section paragraphs
\* are, in order, the section blocks, each showing its text with the
\* surrounding ** removed and in title case when that text is fully
\* upper-case, and each followed by exactly one rule and one spacer.
C13_HeadingDisplayed ==
    (mode = "text" /\ pc = "done") =>
        LET secs == SectionBlocks(blocks)
            at == SectionParas(flowables)
        IN  /\ Cardinality(at) = Len(secs)
            /\ \A k \in 1..Len(secs) :
                  LET p == Nth(at, k)
                  IN  /\ Visible(flowables[p].text) = DisplayedHeading(secs[k].content)
                      /\ p + 2 <= Len(flowables)
                      /\ flowables[p + 1] = Rule("#333333")
                      /\ flowables[p + 2] = Spacer4

\* C14 (as claimed): no body paragraph in the flowable list of the text
\* pipeline starts with a bullet glyph, a dash or an asterisk.
C14_BodyNeverStartsWithMarker ==
    mode = "text" =>
        \A k \in 1..Len(flowables) :
            (flowables[k].kind = "Paragraph" /\ flowables[k].style = "body") =>
                (flowables[k].text = <<>> \/ flowables[k].text[1] \notin ListedMarkers)

(***************************************************************************)
(* text_to_pdf_bytes run to its end: weak fairness of the return, and of   *)
(* the loop iteration with its enabling condition written as the loop      *)
(* condition of line 272 (ENABLED <<RenderTextBlock>>_vars is exactly      *)
(* pc = "render" /\ i < Len(blocks), since an iteration always advances i). *)
(* The interpreter runs the loop on; nothing in the function waits.        *)
(***************************************************************************)
IterationEnabled == mode = "text" /\ pc = "render" /\ i < Len(blocks)
FairText ==
    /\ SpecText
    /\ WF_vars(BuildText)
    /\ ([]<>(~IterationEnabled) \/ []<><<RenderTextBlock>>_vars)

\* one step of the render loop of the text pipeline: the flowables it adds
StepAdds == SubSeq(flowables', Len(flowables) + 1, Len(flowables'))
C15_Step ==
    (mode = "text" /\ pc = "render" /\ (i' # i \/ flowables' # flowables)) =>
        /\ i < Len(blocks) /\ i < i' /\ i' <= Len(blocks)
        /\ Len(flowables') >= Len(flowables)
        /\ SubSeq(flowables', 1, Len(flowables)) = flowables
        /\ IF blocks[i + 1].type = "bullet"
           THEN /\ i = 0 \/ blocks[i].type # "bullet"
                /\ \A m \in (i + 1)..i' : blocks[m].type = "bullet"
                /\ i' = Len(blocks) \/ blocks[i' + 1].type # "bullet"
                /\ Len(StepAdds) >= i' - i + 1
                /\ StepAdds[1] = Spacer4
                /\ \A m \in 1..(i' - i) :
                      StepAdds[1 + m] =
                         Para(LIST_MARKER
                              \o bold_to_xml(strip_bullet_prefix(blocks[i + m].content)),
                              "bullet_text")
                /\ SubSeq(StepAdds, i' - i + 2, Len(StepAdds)) =
                      (IF i' < Len(blocks) /\ blocks[i' + 1].type = "job_title"
                       THEN <<Spacer4, Rule("#cccccc"), Spacer4>> ELSE <<>>)
           ELSE /\ i' = i + 1
                /\ \A m \in 1..Len(StepAdds) :
                      ~(StepAdds[m].kind = "Paragraph" /\ StepAdds[m].style = "bullet_text")
                      /\ StepAdds[m] # Rule("#cccccc")

\* C15: every step of the render loop consumes the blocks after the ones
\* already consumed (so each block is consumed exactly once), a step on a
\* bullet block consumes the whole maximal run of k bullets and adds one
\* spacer, the k bullet paragraphs in order and then spacer, divider rule,
\* spacer exactly when the block after the run is a job title; every other
\* step consumes one block and adds no bullet paragraph and no divider; the
\* loop ends with all blocks consumed, and it always ends.
C15_BulletRunsGrouped ==
    /\ [][C15_Step]_vars
    /\ [](pc = "done" => i = Len(blocks))
    /\ (pc = "render") ~> (pc = "done")

\* C15 witness: a text with a bullet run followed by a job title and a
\* bullet run at the end was rendered to the end; the divider is there once.
C15_Witness ==
    /\ mode = "text" /\ pc = "done" /\ i = Len(blocks)
    /\ \E k \in 1..(Len(blocks) - 1) :
          blocks[k].type = "bullet" /\ blocks[k + 1].type = "job_title"
    /\ blocks[Len(blocks)].type = "bullet"
    /\ Cardinality({k \in 1..Len(flowables) : flowables[k] = Rule("#cccccc")}) = 1


\* the inline markup the claim describes: every <strong> pair as a <b> pair,
\* every <em> pair as an <i> pair, every literal **x** as <b>x</b>
NormalizedInline(text) ==
    LET t1 == escape_amp_for_reportlab(BoldFrom(text, 0))
        t2 == ReplaceAll(ReplaceAll(t1, <<"<","s","t","r","o","n","g",">">>, <<"<","b",">">>), <<"<","/","s","t","r","o","n","g",">">>, <<"<","/","b",">">>)
    IN  ReplaceAll(ReplaceAll(t2, <<"<","e","m",">">>, <<"<","i",">">>), <<"<","/","e","m",">">>, <<"<","/","i",">">>)
\* the text payloads of a block list, in order
RECURSIVE PayloadTexts(_)
PayloadTexts(bs) ==
    IF bs = <<>> THEN <<>>
    ELSE (IF bs[1].kind = "ul" THEN bs[1].payload ELSE <<bs[1].payload.text>>)
         \o PayloadTexts(Tail(bs))
\* the paragraph texts of a flowable list, in order, without the wrapping
\* the renderer adds (the list marker, the <b> pair of a heading)
RECURSIVE ParaTexts(_)
ParaTexts(fs) ==
    IF fs = <<>> THEN <<>>
    ELSE (IF fs[1].kind # "Paragraph" THEN <<>>
          ELSE IF fs[1].style = "bullet_text"
          THEN <<From(fs[1].text, Len(LIST_MARKER))>>
          ELSE IF fs[1].style \in {"title", "body"} THEN <<fs[1].text>>
          ELSE <<Slice(fs[1].text, 3, Len(fs[1].text) - 4)>>)
         \o ParaTexts(Tail(fs))

\* C16 (as claimed): when the HTML pipeline has rendered, every text payload
\* of the parsed blocks is still a piece of the input with its raw inline
\* markup, and the paragraph rendered from it holds the payload with each
\* <strong> pair as <b>, each <em> pair as <i> and each **x** as <b>x</b>.
C16_InlineNormalized ==
    (mode = "html" /\ pc = "done") =>
        LET raw == PayloadTexts(blocks)
            shown == ParaTexts(flowables)
        IN  /\ Len(shown) = Len(raw)
            /\ \A k \in 1..Len(raw) :
                  /\ Find(input, raw[k], 0) # -1
                  /\ shown[k] = NormalizedInline(raw[k])

\* the number of flowables a block of the HTML pipeline is rendered to
FlowCount(b) ==
    IF b.kind = "p" THEN 1 ELSE IF b.kind = "h2" THEN 3 ELSE Len(b.payload)
\* the position in the flowables of the first flowable of block k
RECURSIVE FlowPos(_)
FlowPos(k) == IF k = 1 THEN 1 ELSE FlowPos(k - 1) + FlowCount(blocks[k - 1])
\* the named style the claim gives paragraph block k: title for the first
\* paragraph block of the document, body for every other one
ClaimedStyle(k) ==
    IF \A m \in 1..(k - 1) : blocks[m].kind # "p" THEN "title" ELSE "body"

\* C17 (as claimed): when the HTML pipeline has rendered, the first paragraph
\* block is in the title style and every other paragraph block in the body
\* style, whatever blocks precede it; a captured alignment gives a style
\* derived from that same named style, with the captured alignment.
C17_FirstParagraphIsTitle ==
    (mode = "html" /\ pc = "done") =>
        \A k \in 1..Len(blocks) :
            blocks[k].kind = "p" =>
                LET st == flowables[FlowPos(k)].style
                    align == blocks[k].payload.align
                IN  IF align = "None" THEN st = ClaimedStyle(k)
                    ELSE /\ st.parent = ClaimedStyle(k)
                         /\ st.alignment = 2

\* the offsets in str where an item wrapping its text in one <p> starts
WrappedItemsIn(str) == {p \in 0..(Len(str) - 1) : MatchAt(str, NestedItem, p)}
\* how often the text of such an item occurs in str
CountQ(str) == Cardinality({k \in 1..Len(str) : str[k] = "q"})
\* the entries (p, h2 or ul) whose source offset lies in the span r
EntriesIn(r) ==
    {n \in 1..Len(ordered) : r[1] <= ordered[n].off /\ ordered[n].off < r[2]}

\* C18: once the input is parsed, no p or h2 entry has its offset inside a
\* top-level <ul> span; a span that holds n >= 1 items of the form
\* <li><p>q</p></li> gives exactly one entry, the list block at the start of
\* the span, whose items are n times the bare text q; and the text q is in
\* the blocks as often as it is in the input.
C18_NoBlockInsideUl ==
    Parsed =>
        /\ \A n \in 1..Len(ordered) :
              ordered[n].kind \in {"p", "h2"} =>
                 \A k \in 1..Len(ranges) :
                    ~(ranges[k][1] <= ordered[n].off /\ ordered[n].off < ranges[k][2])
        /\ \A k \in 1..Len(ranges) :
              LET n == Cardinality(WrappedItemsIn(Slice(s, ranges[k][1], ranges[k][2])))
              IN  n >= 1 =>
                     /\ Cardinality(EntriesIn(ranges[k])) = 1
                     /\ \A e \in EntriesIn(ranges[k]) :
                           /\ ordered[e].off = ranges[k][1]
                           /\ ordered[e].kind = "ul"
                           /\ ordered[e].payload = [m \in 1..n |-> <<"q">>]
        /\ CountQ(Flatten(PayloadTexts(blocks))) = CountQ(s)

\* C18 witness: a list holding a wrapped item, a paragraph and a heading was
\* parsed into one list block with the single item q, and nothing else.
C18_Witness ==
    /\ Parsed
    /\ ranges = <<<<0, Len(s)>>>>
    /\ Find(s, ParaElem, 0) # -1 /\ Find(s, HeadElem, 0) # -1
    /\ blocks = <<[kind |-> "ul", payload |-> <<<<"q">>>>]>>
====
